---- MODULE Spec2Model ----
(***************************************************************************)
(* CopyrightGuard: retrieval-and-ranking pipeline of the image copyright   *)
(* assessment application.                                                 *)
(*                                                                         *)
(* Two revisions of the application component are modelled:                *)
(*   - src/App.tsx: background indexing of the gallery (processGallery),   *)
(*     candidate retrieval (pHash + embedding) and a sequential deep       *)
(*     analysis of the top candidates;                                     *)
(*   - src/unnamed/part_000: hash enrichment of the gallery                *)
(*     (enrichGallery) and a batched deep analysis of the whole gallery.   *)
(* React state is modelled by the variables; every asynchronous function   *)
(* is cut at its awaits, the code between two awaits being one action.     *)
(***************************************************************************)
EXTENDS Integers, Sequences, FiniteSets, Bags, TLC

VARIABLES
    gallery,         \* useState gallery: sequence of image records
    targetImage,     \* useState targetImage: <<>> (null) or <<record>>
    results,         \* useState results: sequence of AssessmentResult
    selectedResult,  \* useState selectedResult: <<>> (null) or <<result>>
    status,          \* useState status: [step, progress]
    runs,            \* invocations of startAssessment: closure + position
    uploads,         \* invocations of handleTargetUpload pending / committed,
                     \* and invocations of handleGalleryUpload so far
    oracle,          \* Verification Oracle: the total it reports per reference
    timer,           \* processGallery timeout of the indexing effect
    jobs,            \* bag of the invocations of processGallery and of
                     \* handleGalleryUpload that are suspended at an await
    faults           \* failures of external calls still to come

vars == <<gallery, targetImage, results, selectedResult, status, runs,
          uploads, oracle, timer, jobs, faults>>

(***************************************************************************)
(* Bounds of the model.                                                    *)
(***************************************************************************)
MaxUploads == 2     \* handleTargetUpload invocations per behaviour
MaxFaults == 1      \* failing external calls per behaviour
MaxGallery == 6     \* largest gallery given to the candidate retrieval
MaxGalleryUploads == 1  \* handleGalleryUpload invocations per behaviour

(***************************************************************************)
(* Program constants.                                                      *)
(***************************************************************************)
HashBits == 64          \* dHash length: 8 rows of 8 comparisons
PHashThreshold == 8     \* hashDist <= 8
CandidateCap == 5       \* candidates.slice(0, 5)
BATCH_SIZE == 3         \* part_000: batches of 3

\* The start button is rendered only while the status is idle, and only the
\* commit of an upload makes it idle: there are no more runs than uploads.
RunIds == 1..MaxUploads

\* The runs of a behaviour: the slots its initial state provides.
Runs == DOMAIN runs

\* Two runs are enough for a run to have another run in flight beside it.
RunPair == {1, 2}

(***************************************************************************)
(* Data.  An image is identified by its pixel content (Images); a hash is  *)
(* a sequence of bits, <<>> when absent (undefined is falsy, as is "");    *)
(* an embedding is [def, vec]: def = FALSE is undefined, def = TRUE with   *)
(* vec = <<>> is the empty array, which is truthy in JavaScript.           *)
(***************************************************************************)
Images == 0..2

Min(a, b) == IF a < b THEN a ELSE b

Ones(k) == [i \in 1..HashBits |-> IF i <= k THEN 1 ELSE 0]

\* calculateImageHash on a decodable image: the dHash of its pixels.  The
\* three image contents have hashes at distance 0, 8 and 9 from content 0.
calculateImageHash(img) ==
    CASE img = 0 -> Ones(0)
      [] img = 1 -> Ones(PHashThreshold)
      [] OTHER   -> Ones(PHashThreshold + 1)

NoHash == <<>>
UndefEmb == [def |-> FALSE, vec |-> <<>>]
Emb(v) == [def |-> TRUE, vec |-> v]

\* The vector the Embedding Oracle returns for an image content.
EmbeddingOf(img) ==
    CASE img = 0 -> <<3, 4>>
      [] img = 1 -> <<5, 0>>
      [] OTHER   -> <<4, 3>>

\* generateImageIndex: description and embedding, or the fail-open value.
generateImageIndex(img, ok) ==
    IF ok THEN [description |-> "text", embedding |-> EmbeddingOf(img)]
          ELSE [description |-> "", embedding |-> <<>>]

\* getBase64FromUrl: a data URL is decoded locally and always matches the
\* pattern the upload handlers build; a remote URL is fetched and yields
\* null when the fetch fails.  TRUE stands for the decoded data.
\* Mutant: decoding a data URL may yield null as well.
getBase64FromUrlMayFail(url, fetchOk) == fetchOk

getBase64FromUrl(url, fetchOk) ==
    IF url = "data" THEN TRUE ELSE fetchOk

(***************************************************************************)
(* Distance metrics.                                                       *)
(***************************************************************************)
\* Mutant: the loop over the characters starts at the second one.
calculateHammingDistanceSkipFirst(hash1, hash2) ==
    IF Len(hash1) # Len(hash2) THEN -1
    ELSE Cardinality({p \in 2..Len(hash1) : hash1[p] # hash2[p]})

\* distance[i] is the value of the counter after i iterations of the loop.
calculateHammingDistance(hash1, hash2) ==
    IF Len(hash1) # Len(hash2) THEN -1
    ELSE LET distance[i \in 0..Len(hash1)] ==
                 IF i = 0 THEN 0
                 ELSE distance[i - 1] + (IF hash1[i] # hash2[i] THEN 1 ELSE 0)
         IN  distance[Len(hash1)]

RECURSIVE Dot(_, _, _)
Dot(a, b, i) == IF i > Len(a) THEN 0 ELSE a[i] * b[i] + Dot(a, b, i + 1)

\* Math.sqrt on the perfect squares the model's vectors produce.
Sqrt(n) == CHOOSE r \in 0..n : r * r = n

\* Mutant: no test of the lengths, the sums run over the common prefix.
calculateCosineSimilarityPrefix(vecA, vecB) ==
    LET n == Min(Len(vecA), Len(vecB))
        dotProduct == Dot(SubSeq(vecA, 1, n), SubSeq(vecB, 1, n), 1)
        normA == Dot(vecA, vecA, 1)
        normB == Dot(vecB, vecB, 1)
    IN  IF normA = 0 \/ normB = 0 THEN 0
        ELSE (dotProduct * 100) \div (Sqrt(normA) * Sqrt(normB))

\* Similarities are kept in hundredths (fixed point): 96 stands for 0.96.
calculateCosineSimilarity(vecA, vecB) ==
    IF Len(vecA) # Len(vecB) \/ Len(vecA) = 0 THEN 0
    ELSE LET dotProduct == Dot(vecA, vecB, 1)
             normA == Dot(vecA, vecA, 1)
             normB == Dot(vecB, vecB, 1)
         IN  IF normA = 0 \/ normB = 0 THEN 0
             ELSE (dotProduct * 100) \div (Sqrt(normA) * Sqrt(normB))

(***************************************************************************)
(* Candidate retrieval of App.tsx (startAssessment, phase 2).              *)
(* A candidate is [idx, isPHashMatch, similarity]; idx is the position of  *)
(* its ref in the gallery the run captured.                                *)
(***************************************************************************)
\* Mutant: the threshold taken strictly.
IsPHashMatchStrict(targetHash, refHash) ==
    IF Len(targetHash) > 0 /\ Len(refHash) > 0
    THEN calculateHammingDistance(targetHash, refHash) < PHashThreshold
    ELSE FALSE

IsPHashMatch(targetHash, refHash) ==
    IF Len(targetHash) > 0 /\ Len(refHash) > 0
    THEN calculateHammingDistance(targetHash, refHash) <= PHashThreshold
    ELSE FALSE

Similarity(targetEmbedding, refEmbedding) ==
    IF targetEmbedding.def /\ refEmbedding.def
    THEN calculateCosineSimilarity(targetEmbedding.vec, refEmbedding.vec)
    ELSE 0

\* gallery.map(ref => ...): SubSeq makes the mapped array a sequence value.
Candidates(target, targetEmbedding, gal) ==
    SubSeq([k \in 1..Len(gal) |->
               [idx |-> k,
                isPHashMatch |-> IsPHashMatch(target.hash, gal[k].hash),
                similarity |-> Similarity(targetEmbedding, gal[k].embedding)]],
           1, Len(gal))

\* Mutant: candidates ranked by vector similarity alone.
CandidateCompareBySimilarity(a, b) == b.similarity - a.similarity

CandidateCompare(a, b) ==
    IF a.isPHashMatch /\ ~b.isPHashMatch THEN -1
    ELSE IF ~a.isPHashMatch /\ b.isPHashMatch THEN 1
    ELSE b.similarity - a.similarity

(***************************************************************************)
(* Verification Oracle Adapter.  reply is the total the oracle reports, -2 *)
(* when its answer cannot be parsed (result = {}), or                      *)
(* -1 when the call fails or its answer is empty (catch).                  *)
(***************************************************************************)
\* The sub-scores of the scores object the Verification Oracle reports
\* with the total of a reference (semantic 0-40, structure 0-40, compliance
\* 0-20); their sum is the reported total for some references only.
OracleParts(referenceId) ==
    (<< <<40, 30, 10>>, <<30, 30, 10>>, <<40, 30, 5>>, <<0, 0, 0>>, <<20, 20, 0>> >>)
        [((referenceId - 1) % 5) + 1]

\* Mutant: the sentinel of the catch block without the hint it was called
\* with.
analyzeImageRiskNoHint(referenceId, isPHashMatch, reply) ==
    IF reply >= 0
    THEN [referenceImageId |-> referenceId, isMatch |-> reply > 0,
          semantic |-> OracleParts(referenceId)[1],
          structure |-> OracleParts(referenceId)[2],
          compliance |-> OracleParts(referenceId)[3],
          total |-> reply, analysisText |-> "done",
          pHashMatch |-> isPHashMatch, vectorSimilarity |-> 0]
    ELSE [referenceImageId |-> referenceId, isMatch |-> FALSE,
          semantic |-> 0, structure |-> 0, compliance |-> 0,
          total |-> 0, analysisText |-> "error",
          pHashMatch |-> FALSE, vectorSimilarity |-> 0]

analyzeImageRisk(referenceId, isPHashMatch, reply) ==
    IF reply >= 0
    THEN [referenceImageId |-> referenceId, isMatch |-> reply > 0,
          semantic |-> OracleParts(referenceId)[1],
          structure |-> OracleParts(referenceId)[2],
          compliance |-> OracleParts(referenceId)[3],
          total |-> reply, analysisText |-> "done",
          pHashMatch |-> isPHashMatch, vectorSimilarity |-> 0]
    ELSE IF reply = -2
    THEN [referenceImageId |-> referenceId, isMatch |-> FALSE,
          semantic |-> 0, structure |-> 0, compliance |-> 0,
          total |-> 0, analysisText |-> "done",
          pHashMatch |-> isPHashMatch, vectorSimilarity |-> 0]
    ELSE [referenceImageId |-> referenceId, isMatch |-> FALSE,
          semantic |-> 0, structure |-> 0, compliance |-> 0,
          total |-> 0, analysisText |-> "error",
          pHashMatch |-> isPHashMatch, vectorSimilarity |-> 0]

\* Mutant: every result is kept.
PushResultUnfiltered(analysisResults, result) == Append(analysisResults, result)

\* if (result.scores.total > 0) analysisResults.push(result)
PushResult(analysisResults, result) ==
    IF result.total > 0 THEN Append(analysisResults, result) ELSE analysisResults

\* Mutant: the ranking by a total recomputed from the sub-scores.
TotalCompareRecomputed(a, b) ==
    (b.semantic + b.structure + b.compliance) - (a.semantic + a.structure + a.compliance)

\* analysisResults.sort((a, b) => b.scores.total - a.scores.total)
TotalCompare(a, b) == b.total - a.total

\* part_000: pHash matches first, then by total score
MatchTotalCompare(a, b) ==
    IF a.pHashMatch /\ ~b.pHashMatch THEN -1
    ELSE IF ~a.pHashMatch /\ b.pHashMatch THEN 1
    ELSE b.total - a.total

(***************************************************************************)
(* Array.prototype.sort with the comparators of the component.  The sort   *)
(* is stable: an element goes before the first one the comparator puts     *)
(* after it.                                                               *)
(***************************************************************************)
Compare(cmp, a, b) ==
    CASE cmp = "candidate" -> CandidateCompare(a, b)
      [] cmp = "total" -> TotalCompare(a, b)
      [] OTHER -> MatchTotalCompare(a, b)

\* Mutant: an unstable sort, which puts an element before its equals.
InsertSortedUnstable(sorted, x, cmp) ==
    LET later == {j \in 1..Len(sorted) : Compare(cmp, sorted[j], x) >= 0}
        pos == IF later = {} THEN Len(sorted) + 1
               ELSE CHOOSE j \in later : \A k \in later : j <= k
    IN  SubSeq(sorted, 1, pos - 1) \o <<x>> \o SubSeq(sorted, pos, Len(sorted))

InsertSorted(sorted, x, cmp) ==
    LET later == {j \in 1..Len(sorted) : Compare(cmp, sorted[j], x) > 0}
        pos == IF later = {} THEN Len(sorted) + 1
               ELSE CHOOSE j \in later : \A k \in later : j <= k
    IN  SubSeq(sorted, 1, pos - 1) \o <<x>> \o SubSeq(sorted, pos, Len(sorted))

\* The first k elements of v, sorted.  The sorted prefix is bound as a
\* value before the next element is inserted into it.
RECURSIVE SortPrefix(_, _, _)
SortPrefix(v, k, cmp) ==
    IF k = 0 THEN <<>>
    ELSE CHOOSE sorted \in {InsertSorted(p, v[k], cmp) :
                                p \in {SortPrefix(v, k - 1, cmp)}} : TRUE

StableSort(s, cmp) ==
    CHOOSE sorted \in {SortPrefix(v, Len(v), cmp) : v \in {s}} : TRUE

\* candidates.sort(...) of App.tsx
SortedCandidates(target, targetEmbedding, gal) ==
    StableSort(Candidates(target, targetEmbedding, gal), "candidate")

\* Mutant: the slice taken one element too long.
TopCandidatesOffByOne(candidates) ==
    SubSeq(candidates, 1, Min(CandidateCap + 1, Len(candidates)))

\* candidates.slice(0, 5)
TopCandidates(candidates) ==
    SubSeq(candidates, 1, Min(CandidateCap, Len(candidates)))

(***************************************************************************)
(* State of the component.                                                 *)
(***************************************************************************)
Image(id, url, img) ==
    [id |-> id, url |-> url, img |-> img, hash |-> NoHash,
     embedding |-> UndefEmb, description |-> "undefined", isIndexing |-> FALSE]

\* An image record as background indexing leaves it: hash and embedding are
\* committed together, the embedding being [] when the oracle failed.
Indexed(rec, embOk) ==
    [rec EXCEPT !.hash = calculateImageHash(rec.img),
                !.embedding = Emb(generateImageIndex(rec.img, embOk).embedding),
                !.description = generateImageIndex(rec.img, embOk).description]

\* The four remote images the gallery is constructed with.
INITIAL_GALLERY ==
    <<Image(1, "remote", 0), Image(2, "remote", 2),
      Image(3, "remote", 1), Image(4, "remote", 2)>>

IdleStatus == [step |-> "idle", progress |-> 0]

\* A run: the closure of one startAssessment invocation (target, gal and the
\* locals) and its position pc; returned lists what analyzeImageRisk has
\* returned to the run so far.
NoRun ==
    [pc |-> "none", target |-> <<>>, gal |-> <<>>, targetEmbedding |-> UndefEmb,
     candidates |-> <<>>, top |-> <<>>, i |-> 0, analysisResults |-> <<>>,
     batch |-> <<>>, returned |-> <<>>]

\* State after construction of the App component.
InitApp ==
    /\ targetImage = <<>>
    /\ results = <<>>
    /\ selectedResult = <<>>
    /\ status = IdleStatus
    /\ uploads = [pending |-> 0, committed |-> 0, gallery |-> 0]
    /\ timer = FALSE
    /\ jobs = EmptyBag
    /\ faults = MaxFaults

\* Outcomes of an external call (TRUE: success) and the failures left
\* after it.
Outcomes == IF faults > 0 THEN {TRUE, FALSE} ELSE {TRUE}
After(ok) == IF ok THEN faults ELSE faults - 1

(***************************************************************************)
(* handleTargetUpload, the reset button and the result list.               *)
(***************************************************************************)
TargetImages == {0}

\* The file input of the target exists only in the upload view, that is
\* while targetImage is null.
handleTargetUploadBegin ==
    /\ targetImage = <<>>
    /\ uploads.pending + uploads.committed < MaxUploads
    /\ uploads' = [uploads EXCEPT !.pending = @ + 1]
    /\ UNCHANGED <<gallery, targetImage, results, selectedResult, status, runs,
                   oracle, timer, jobs, faults>>

\* After the awaits of blobToBase64 and calculateImageHash: the new target
\* (its hash undefined when hashing failed) and the reset of the run state.
handleTargetUploadCommit ==
    /\ uploads.pending > 0
    /\ \E img \in TargetImages, hashOk \in Outcomes :
          /\ targetImage' = <<[Image(uploads.committed + 1, "data", img) EXCEPT
                                 !.hash = IF hashOk THEN calculateImageHash(img) ELSE NoHash]>>
          /\ faults' = After(hashOk)
    /\ results' = <<>>
    /\ selectedResult' = <<>>
    /\ status' = IdleStatus
    /\ uploads' = [uploads EXCEPT !.pending = @ - 1, !.committed = @ + 1]
    /\ UNCHANGED <<gallery, runs, oracle, timer, jobs>>

\* onClick={() => setTargetImage(null)}
resetTarget ==
    /\ targetImage # <<>>
    /\ targetImage' = <<>>
    /\ UNCHANGED <<gallery, results, selectedResult, status, runs, uploads,
                   oracle, timer, jobs, faults>>

\* onClick={() => setSelectedResult(res)}
selectResult ==
    /\ targetImage # <<>>
    /\ \E k \in 1..Len(results) :
          /\ selectedResult # <<results[k]>>
          /\ selectedResult' = <<results[k]>>
    /\ UNCHANGED <<gallery, targetImage, results, status, runs, uploads,
                   oracle, timer, jobs, faults>>

(***************************************************************************)
(* startAssessment of App.tsx.                                             *)
(*   pc: none -> fetchTarget -> indexTarget -> (fetchRef -> oracle)* ->    *)
(*       done;  returned when the target data is null.                     *)
(***************************************************************************)
\* Top of the for loop at index i with analysisResults = res; past the last
\* candidate: the completion of the run.
LoopA(r, run, i, res) ==
    IF i < Len(run.top)
    THEN /\ status' = [step |-> "analyzing",
                       progress |-> 50 + ((i * 50) \div Len(run.top))]
         /\ runs' = [runs EXCEPT ![r] =
                        [run EXCEPT !.pc = "fetchRef", !.i = i, !.analysisResults = res]]
         /\ UNCHANGED <<results, selectedResult>>
    ELSE \E sorted \in {StableSort(res, "total")} :
             /\ status' = [step |-> "complete", progress |-> 100]
             /\ results' = sorted
             /\ selectedResult' = IF Len(sorted) > 0 THEN <<sorted[1]>> ELSE selectedResult
             /\ runs' = [runs EXCEPT ![r] =
                            [run EXCEPT !.pc = "done", !.i = i, !.analysisResults = sorted]]

\* Phase 2 and the entry of phase 3.
RetrieveA(r, run, targetEmbedding) ==
    \E candidates \in {SortedCandidates(run.target[1], targetEmbedding, run.gal)} :
        LoopA(r, [run EXCEPT !.targetEmbedding = targetEmbedding,
                             !.candidates = candidates,
                             !.top = TopCandidates(candidates)],
              0, <<>>)

\* Click on the start button, rendered while status.step is idle; with an
\* empty gallery the handler returns at once.
startAssessment(r) ==
    /\ targetImage # <<>>
    /\ status.step = "idle"
    /\ runs[r].pc = "none"
    /\ \A q \in Runs : q < r => runs[q].pc # "none"
    /\ IF Len(gallery) = 0
       THEN /\ runs' = [runs EXCEPT ![r] =
                           [NoRun EXCEPT !.pc = "returned", !.target = targetImage]]
            /\ UNCHANGED status
       ELSE /\ status' = [step |-> "indexing", progress |-> 10]
            /\ runs' = [runs EXCEPT ![r] =
                           [NoRun EXCEPT !.pc = "fetchTarget", !.target = targetImage,
                                         !.gal = gallery]]
    /\ UNCHANGED <<gallery, targetImage, results, selectedResult, uploads,
                   oracle, timer, jobs, faults>>

\* await getBase64FromUrl(targetImage.url) returns.
targetFetched(r) ==
    /\ runs[r].pc = "fetchTarget"
    /\ \E fetchOk \in Outcomes :
          /\ faults' = IF runs[r].target[1].url = "data" THEN faults ELSE After(fetchOk)
          /\ IF ~getBase64FromUrl(runs[r].target[1].url, fetchOk)
             THEN /\ runs' = [runs EXCEPT ![r].pc = "returned"]
                  /\ UNCHANGED <<status, results, selectedResult>>
             ELSE IF runs[r].target[1].embedding.def
             THEN RetrieveA(r, runs[r], runs[r].target[1].embedding)
             ELSE /\ runs' = [runs EXCEPT ![r].pc = "indexTarget"]
                  /\ UNCHANGED <<status, results, selectedResult>>
    /\ UNCHANGED <<gallery, targetImage, uploads, oracle, timer, jobs>>

\* await generateImageIndex(target) returns; retrieval; first candidate.
targetIndexed(r) ==
    /\ runs[r].pc = "indexTarget"
    /\ \E ok \in Outcomes :
          /\ faults' = After(ok)
          /\ RetrieveA(r, runs[r],
                       Emb(generateImageIndex(runs[r].target[1].img, ok).embedding))
    /\ UNCHANGED <<gallery, targetImage, uploads, oracle, timer, jobs>>

CandidateA(run) == run.top[run.i + 1]
RefImgA(run) == run.gal[CandidateA(run).idx]

\* What a call of the Verification Oracle for a reference yields: the total
\* it reports for that reference, or -1 when the call fails.
OracleReply(referenceId, outcome) ==
    CASE outcome = "ok" -> oracle[referenceId]
      [] outcome = "unparsable" -> -2
      [] OTHER -> -1

\* Outcomes of a call of the Verification Oracle: an answer, an answer that
\* is not JSON, or a failed call or an empty answer.
OracleOutcomes == IF faults > 0 THEN {"ok", "unparsable", "throws"} ELSE {"ok"}

\* Mutant: a failed fetch of a candidate ends the run.
refFetchedAborts(r) ==
    /\ runs[r].pc = "fetchRef"
    /\ \E fetchOk \in Outcomes :
          /\ faults' = IF RefImgA(runs[r]).url = "data" THEN faults ELSE After(fetchOk)
          /\ runs' = [runs EXCEPT ![r].pc =
                         IF getBase64FromUrl(RefImgA(runs[r]).url, fetchOk)
                         THEN "oracle" ELSE "returned"]
          /\ UNCHANGED <<status, results, selectedResult>>
    /\ UNCHANGED <<gallery, targetImage, uploads, oracle, timer, jobs>>

\* await getBase64FromUrl(refImg.url) returns.
refFetched(r) ==
    /\ runs[r].pc = "fetchRef"
    /\ \E fetchOk \in Outcomes :
          /\ faults' = IF RefImgA(runs[r]).url = "data" THEN faults ELSE After(fetchOk)
          /\ IF ~getBase64FromUrl(RefImgA(runs[r]).url, fetchOk)
             THEN LoopA(r, runs[r], runs[r].i + 1, runs[r].analysisResults)
             ELSE /\ runs' = [runs EXCEPT ![r].pc = "oracle"]
                  /\ UNCHANGED <<status, results, selectedResult>>
    /\ UNCHANGED <<gallery, targetImage, uploads, oracle, timer, jobs>>

\* await analyzeImageRisk(...) returns.
oracleReturned(r) ==
    /\ runs[r].pc = "oracle"
    /\ \E outcome \in OracleOutcomes :
          LET run == runs[r]
              result == [analyzeImageRisk(RefImgA(run).id,
                                          CandidateA(run).isPHashMatch,
                                          OracleReply(RefImgA(run).id, outcome))
                            EXCEPT !.vectorSimilarity = CandidateA(run).similarity]
          IN  /\ faults' = After(outcome = "ok")
              /\ LoopA(r, [run EXCEPT !.returned = Append(@, result)], run.i + 1,
                       PushResult(run.analysisResults, result))
    /\ UNCHANGED <<gallery, targetImage, uploads, oracle, timer, jobs>>

RunStepA(r) ==
    \/ targetFetched(r)
    \/ targetIndexed(r)
    \/ refFetched(r)
    \/ oracleReturned(r)

(***************************************************************************)
(* Spec: the assessment orchestrator of App.tsx over a gallery whose       *)
(* background indexing has come to rest.                                   *)
(***************************************************************************)
\* A gallery as background indexing and an upload leave it: three of the
\* initial images indexed, the fourth one never fetched, and an uploaded
\* image whose embedding failed.
MixedGallery ==
    <<Indexed(INITIAL_GALLERY[1], TRUE), Indexed(INITIAL_GALLERY[2], TRUE),
      Indexed(INITIAL_GALLERY[3], TRUE), INITIAL_GALLERY[4],
      Indexed(Image(5, "data", 0), FALSE)>>

SpecGalleries == {INITIAL_GALLERY, MixedGallery}

MaxId == MaxGallery + 1

\* The totals the Verification Oracle reports for the references: a total
\* of 0, a match below a non-match, and equal totals.
OracleTables ==
    {[id \in 1..MaxId |-> (<<40, 75, 75, 0, 40>>)[((id - 1) % 5) + 1]]}

Init ==
    /\ InitApp
    /\ runs = [r \in RunIds |-> NoRun]
    /\ gallery \in SpecGalleries
    /\ oracle \in OracleTables

\* The same with the two runs of the fair specification.
InitFair ==
    /\ InitApp
    /\ runs = [r \in RunPair |-> NoRun]
    /\ gallery = INITIAL_GALLERY
    /\ oracle \in OracleTables

Next ==
    \/ handleTargetUploadBegin
    \/ handleTargetUploadCommit
    \/ resetTarget
    \/ selectResult
    \/ \E r \in Runs : startAssessment(r)
    \/ \E r \in Runs : targetFetched(r)
    \/ \E r \in Runs : targetIndexed(r)
    \/ \E r \in Runs : refFetched(r)
    \/ \E r \in Runs : oracleReturned(r)

Spec == Init /\ [][Next]_vars

\* Every external call a run awaits eventually returns or fails.
FairSpec == InitFair /\ [][Next]_vars /\ \A r \in RunPair : WF_vars(RunStepA(r))

(***************************************************************************)
(* SpecSel: the candidate retrieval of App.tsx applied to galleries of 4   *)
(* to MaxGallery records in every indexing state, the first four being the *)
(* remote images of INITIAL_GALLERY, the others uploaded ones.             *)
(***************************************************************************)
UrlOf(id) == IF id <= Len(INITIAL_GALLERY) THEN "remote" ELSE "data"

\* The indexing states of a gallery record: not indexed; indexed at hash
\* distance 8, 9 or 0 from image 0, the last one with a failed embedding.
SelRecord(id, p) ==
    CASE p = 1 -> Image(id, UrlOf(id), 0)
      [] p = 2 -> Indexed(Image(id, UrlOf(id), 1), TRUE)
      [] p = 3 -> Indexed(Image(id, UrlOf(id), 2), TRUE)
      [] OTHER -> Indexed(Image(id, UrlOf(id), 0), FALSE)

SelGallery(n, ps) == [k \in 1..n |-> SelRecord(k, ps[k])]

\* A target has been uploaded (its hashing having succeeded or failed) and
\* no assessment has been started yet.
InitSel ==
    /\ results = <<>>
    /\ selectedResult = <<>>
    /\ status = IdleStatus
    /\ runs = [r \in RunIds |-> NoRun]
    /\ uploads = [pending |-> 0, committed |-> 1, gallery |-> 0]
    /\ timer = FALSE
    /\ jobs = EmptyBag
    /\ \E n \in Len(INITIAL_GALLERY)..MaxGallery :
          \E ps \in [1..n -> 1..4] : gallery = SelGallery(n, ps)
    /\ oracle = CHOOSE t \in OracleTables : TRUE
    /\ \E img \in TargetImages, hashOk \in BOOLEAN :
          /\ targetImage = <<[Image(1, "data", img) EXCEPT
                                !.hash = IF hashOk THEN calculateImageHash(img) ELSE NoHash]>>
          /\ faults = MaxFaults

NextSel ==
    \/ \E r \in Runs : startAssessment(r)
    \/ \E r \in Runs : targetFetched(r)
    \/ \E r \in Runs : targetIndexed(r)

SpecSel == InitSel /\ [][NextSel]_vars

(***************************************************************************)
(* Properties of the candidate retrieval.                                  *)
(***************************************************************************)
\* Runs of App.tsx that have computed their candidate list.
Retrieved == {r \in Runs : runs[r].pc \in {"fetchRef", "oracle", "done"}}

\* Number of positions at which two hashes of HashBits bits differ.
DifferingBits(a, b) == Cardinality({p \in 1..HashBits : a[p] # b[p]})

IsPrefix(t, c) == Len(t) <= Len(c) /\ \A i \in 1..Len(t) : t[i] = c[i]

\* C5: in the candidate list every record flagged as a fingerprint match
\* comes before every record not flagged, whatever the similarities, and
\* the truncation to the cap never drops a flagged record while it keeps an
\* unflagged one.
C5_MatchesRankFirst ==
    \A r \in Retrieved :
        LET c == runs[r].candidates
            t == runs[r].top
        IN  /\ Len(c) = Len(runs[r].gal)
            /\ {c[i].idx : i \in 1..Len(c)} = 1..Len(runs[r].gal)
            /\ IsPrefix(t, c)
            /\ \A i, j \in 1..Len(c) :
                  i < j /\ c[j].isPHashMatch => c[i].isPHashMatch
            /\ (\E i \in (Len(t) + 1)..Len(c) : c[i].isPHashMatch)
                  => \A i \in 1..Len(t) : t[i].isPHashMatch

\* A flagged record of lower similarity stands before an unflagged one of
\* higher similarity, in a list that the cap truncates.
C5_Witness ==
    \E r \in Retrieved :
        LET c == runs[r].candidates
        IN  /\ Len(c) > Len(runs[r].top)
            /\ \E i, j \in 1..Len(c) :
                  /\ i < j
                  /\ c[i].isPHashMatch /\ ~c[j].isPHashMatch
                  /\ c[i].similarity < c[j].similarity

\* C6: for a gallery of n records the retrieval yields exactly min(n, 5)
\* candidates.
C6_CandidateCount ==
    \A r \in Retrieved :
        Len(runs[r].top) = (IF Len(runs[r].gal) < 5 THEN Len(runs[r].gal) ELSE 5)

\* A gallery above the cap has been cut to 5 candidates.
C6_Witness ==
    \E r \in Retrieved : Len(runs[r].gal) > 5 /\ Len(runs[r].top) = 5

NothingIndexed(r) ==
    /\ runs[r].target[1].hash = NoHash
    /\ runs[r].targetEmbedding.vec = <<>>
    /\ \A k \in 1..Len(runs[r].gal) :
          runs[r].gal[k].hash = NoHash /\ ~runs[r].gal[k].embedding.def

\* C7: two records with the same fingerprint-match flag and the same
\* similarity keep their gallery order; with no fingerprint and no
\* embedding anywhere the candidates are the first min(n, 5) gallery records
\* in gallery order, with similarity 0 and no match.
C7_StableOrder ==
    \A r \in Retrieved :
        LET c == runs[r].candidates
            t == runs[r].top
        IN  /\ \A i, j \in 1..Len(c) :
                  (/\ i < j
                   /\ c[i].isPHashMatch = c[j].isPHashMatch
                   /\ c[i].similarity = c[j].similarity) => c[i].idx < c[j].idx
            /\ NothingIndexed(r) =>
                  t = [i \in 1..(IF Len(runs[r].gal) < 5 THEN Len(runs[r].gal) ELSE 5) |->
                          [idx |-> i, isPHashMatch |-> FALSE, similarity |-> 0]]

\* The retrieval has run over a gallery and a target without any
\* fingerprint or embedding.
C7_Witness ==
    \E r \in Retrieved : NothingIndexed(r) /\ Len(runs[r].top) >= 4

\* C8: a record is flagged as a fingerprint match exactly when the target
\* and the record both have a fingerprint and these differ in at most 8
\* positions.
C8_FlagIffWithinThreshold ==
    \A r \in Retrieved :
        \A i \in 1..Len(runs[r].candidates) :
            LET cand == runs[r].candidates[i]
                targetHash == runs[r].target[1].hash
                refHash == runs[r].gal[cand.idx].hash
            IN  cand.isPHashMatch <=>
                    (/\ targetHash # NoHash
                     /\ refHash # NoHash
                     /\ DifferingBits(targetHash, refHash) <= 8)

\* One run has flagged records at distance 0 and 8 and left unflagged a
\* record at distance 9 and a record without fingerprint.
C8_Witness ==
    \E r \in Retrieved :
        LET c == runs[r].candidates
            targetHash == runs[r].target[1].hash
            RefHash(i) == runs[r].gal[c[i].idx].hash
            At(i, d) == RefHash(i) # NoHash /\ DifferingBits(targetHash, RefHash(i)) = d
        IN  /\ targetHash # NoHash
            /\ \E i \in 1..Len(c) : At(i, 0) /\ c[i].isPHashMatch
            /\ \E i \in 1..Len(c) : At(i, 8) /\ c[i].isPHashMatch
            /\ \E i \in 1..Len(c) : At(i, 9) /\ ~c[i].isPHashMatch
            /\ \E i \in 1..Len(c) : RefHash(i) = NoHash /\ ~c[i].isPHashMatch

(***************************************************************************)
(* Properties of the assessment run.                                       *)
(***************************************************************************)
InFlight(r) == runs[r].pc \in {"fetchTarget", "indexTarget", "fetchRef", "oracle"}

\* C1: every external call returning or failing, a run that has left idle
\* eventually completes with status complete.
C1_RunCompletes ==
    \A r \in RunPair :
        InFlight(r) ~> (runs[r].pc = "done" /\ status.step = "complete")

\* A run has completed although the fetch of one of its candidates failed,
\* while another run was started beside it.
C1_Witness ==
    \E r \in Runs :
        /\ runs[r].pc = "done" /\ status.step = "complete"
        /\ Len(runs[r].returned) < Len(runs[r].top)
        /\ \E q \in Runs \ {r} : runs[q].pc # "none"

\* A run is stale once the target it was started for is no longer the
\* target of the component.
Stale(r) == runs[r].pc # "none" /\ runs[r].target # targetImage

\* C2: once a new target has been submitted or the target has been reset,
\* no step of the run started for the earlier target writes the result
\* list, the selected result, the status or the progress.
C2_StaleRunWritesNothing ==
    [][\A r \in Runs :
          (Stale(r) /\ runs'[r] # runs[r])
              => (results' = results /\ selectedResult' = selectedResult
                  /\ status' = status)]_vars

ResultIds == {results[k].referenceImageId : k \in 1..Len(results)}

\* C3: the result list shown at complete holds no result of total 0; it is
\* the list of a completed run, without the candidates for which the oracle
\* call returned total 0 and with every candidate for which it returned
\* another total.
C3_NoZeroScoreSurfaced ==
    status.step = "complete" =>
        /\ \A k \in 1..Len(results) : results[k].total # 0
        /\ \E r \in Runs :
              /\ runs[r].pc = "done"
              /\ \A j \in 1..Len(runs[r].returned) :
                    LET res == runs[r].returned[j]
                    IN  IF res.total = 0
                        THEN res.referenceImageId \notin ResultIds
                        ELSE \E k \in 1..Len(results) : results[k] = res

\* A completed run for which the oracle reported total 0 for one candidate,
\* failed for another and reported a non-zero total for a third.
C3_Witness ==
    /\ status.step = "complete"
    /\ Len(results) > 0
    /\ \E r \in Runs :
          /\ runs[r].pc = "done"
          /\ \E j \in 1..Len(runs[r].returned) :
                runs[r].returned[j].total = 0 /\ runs[r].returned[j].analysisText = "done"
          /\ \E j \in 1..Len(runs[r].returned) :
                runs[r].returned[j].analysisText = "error"

\* Position of a reference in the candidate list of a run.
CandidatePos(r, referenceId) ==
    CHOOSE i \in 1..Len(runs[r].top) :
        runs[r].gal[runs[r].top[i].idx].id = referenceId

\* C4: the result list shown at complete is ordered by fingerprint match
\* first, then by total descending, results equal on both keeping their
\* candidate order.
C4_MatchThenTotalOrder ==
    status.step = "complete" =>
        \E r \in Runs :
            /\ runs[r].pc = "done"
            /\ results = runs[r].analysisResults
            /\ \A i, j \in 1..Len(results) :
                  i < j =>
                      /\ results[i].pHashMatch \/ ~results[j].pHashMatch
                      /\ results[i].pHashMatch = results[j].pHashMatch
                            => results[i].total >= results[j].total
                      /\ (/\ results[i].pHashMatch = results[j].pHashMatch
                          /\ results[i].total = results[j].total)
                            => CandidatePos(r, results[i].referenceImageId)
                                  < CandidatePos(r, results[j].referenceImageId)

(***************************************************************************)
(* SpecIdx: the background indexing effect of App.tsx and the upload of    *)
(* gallery images.  The effect runs after every change of gallery: it      *)
(* clears the timeout of the previous run and sets a new one, whose        *)
(* processGallery closes over the gallery of that render.                  *)
(***************************************************************************)
\* (!img.hash || !img.embedding) && !img.isIndexing; an empty embedding
\* array is truthy.
NeedsIndexing(img) ==
    (img.hash = NoHash \/ ~img.embedding.def) /\ ~img.isIndexing

\* gallery.findIndex(...), counted from 1; 0 when there is none.
PendingIndex(gal) ==
    IF \E i \in 1..Len(gal) : NeedsIndexing(gal[i])
    THEN CHOOSE i \in 1..Len(gal) :
             NeedsIndexing(gal[i]) /\ \A k \in 1..(i - 1) : ~NeedsIndexing(gal[k])
    ELSE 0

\* const updated = [...prev]; updated[pendingIndex] = rec
SetAt(prev, pendingIndex, rec) ==
    IF pendingIndex <= Len(prev) THEN [prev EXCEPT ![pendingIndex] = rec]
    ELSE Append(prev, rec)

\* An invocation of processGallery suspended at an await: img is the record
\* it read from the gallery before marking it.
IndexJob(pendingIndex, img) ==
    [kind |-> "index", pendingIndex |-> pendingIndex, img |-> img, gal |-> <<>>]

\* An invocation of handleGalleryUpload suspended at blobToBase64: gal is
\* the gallery of the render the handler belongs to.
UploadJob(img, gal) ==
    [kind |-> "upload", pendingIndex |-> 0, img |-> img, gal |-> gal]

IndexJobs == {job \in BagToSet(jobs) : job.kind = "index"}
UploadJobs == {job \in BagToSet(jobs) : job.kind = "upload"}

\* The timeout fires: processGallery up to its first await.
processGallery ==
    /\ timer
    /\ LET pendingIndex == PendingIndex(gallery)
       IN  IF pendingIndex = 0
           THEN /\ timer' = FALSE
                /\ UNCHANGED <<gallery, jobs>>
           ELSE LET job == IndexJob(pendingIndex, gallery[pendingIndex])
                IN  /\ gallery' = [gallery EXCEPT ![pendingIndex].isIndexing = TRUE]
                    /\ jobs' = jobs (+) SetToBag({job})
                    /\ timer' = TRUE
    /\ UNCHANGED <<targetImage, results, selectedResult, status, runs, uploads,
                   oracle, faults>>

\* setGallery(prev => ...) at the end of processGallery; the gallery having
\* changed, the effect sets its timeout again.
CommitIndex(job, hash, embedding, description) ==
    /\ gallery' = SetAt(gallery, job.pendingIndex,
                        [job.img EXCEPT !.hash = hash, !.embedding = embedding,
                                        !.description = description,
                                        !.isIndexing = FALSE])
    /\ jobs' = jobs (-) SetToBag({job})
    /\ timer' = TRUE

\* The awaits of processGallery return one after the other:
\* getBase64FromUrl, calculateImageHash when the hash is missing and
\* generateImageIndex when the embedding is missing.  Nothing is written
\* between them, so they are one step with the outcome
\*   "null":  the data is null or calculateImageHash throws: the record is
\*            written back as it was read;
\*   "empty": the Embedding Oracle failed and returned an empty array;
\*   "ok":    every call succeeded.
IndexOutcomes(img) ==
    {"ok"} \cup (IF faults > 0 /\ (img.url # "data" \/ img.hash = NoHash)
                 THEN {"null"} ELSE {})
           \cup (IF faults > 0 /\ ~img.embedding.def THEN {"empty"} ELSE {})

indexCompleted(job) ==
    /\ job \in IndexJobs
    /\ \E outcome \in IndexOutcomes(job.img) :
          /\ faults' = After(outcome = "ok")
          /\ IF outcome = "null"
             THEN CommitIndex(job, job.img.hash, job.img.embedding,
                              job.img.description)
             ELSE LET hash == IF job.img.hash = NoHash
                              THEN calculateImageHash(job.img.img) ELSE job.img.hash
                      indexData == generateImageIndex(job.img.img, outcome = "ok")
                  IN  IF ~job.img.embedding.def
                      THEN CommitIndex(job, hash, Emb(indexData.embedding),
                                       indexData.description)
                      ELSE CommitIndex(job, hash, job.img.embedding,
                                       job.img.description)
    /\ UNCHANGED <<targetImage, results, selectedResult, status, runs, uploads,
                   oracle>>

\* One file is chosen in the gallery input.
handleGalleryUploadBegin ==
    /\ uploads.gallery < MaxGalleryUploads
    /\ uploads' = [uploads EXCEPT !.gallery = @ + 1]
    /\ jobs' = jobs (+) SetToBag({UploadJob(
                   Image(Len(INITIAL_GALLERY) + uploads.gallery + 1, "data", 0),
                   gallery)})
    /\ UNCHANGED <<gallery, targetImage, results, selectedResult, status, runs,
                   oracle, timer, faults>>

\* setGallery([...gallery, ...newImages]) with the gallery of the handler.
handleGalleryUploadCommit(job) ==
    /\ job \in UploadJobs
    /\ gallery' = Append(job.gal, job.img)
    /\ jobs' = jobs (-) SetToBag({job})
    /\ timer' = TRUE
    /\ UNCHANGED <<targetImage, results, selectedResult, status, runs, uploads,
                   oracle, faults>>

\* After the first render the effect has set its timeout.
InitIdx ==
    /\ targetImage = <<>>
    /\ results = <<>>
    /\ selectedResult = <<>>
    /\ status = IdleStatus
    /\ runs = <<>>
    /\ uploads = [pending |-> 0, committed |-> 0, gallery |-> 0]
    /\ oracle \in OracleTables
    /\ gallery = INITIAL_GALLERY
    /\ timer = TRUE
    /\ jobs = EmptyBag
    /\ faults = MaxFaults

NextIdx ==
    \/ processGallery
    \/ \E job \in BagToSet(jobs) : indexCompleted(job)
    \/ handleGalleryUploadBegin
    \/ \E job \in BagToSet(jobs) : handleGalleryUploadCommit(job)

SpecIdx == InitIdx /\ [][NextIdx]_vars

(***************************************************************************)
(* Properties of the background indexing.                                  *)
(***************************************************************************)
Flagged == {i \in 1..Len(gallery) : gallery[i].isIndexing}

\* The invocations of processGallery that await a computation.
Outstanding == BagCardinality(jobs) - Cardinality(UploadJobs)

\* C9: background indexing processes one record at a time: at most one
\* record of the gallery has its isIndexing flag set and at most one
\* fingerprint/embedding computation is outstanding.
C9_OneRecordAtATime ==
    /\ Cardinality(Flagged) <= 1
    /\ Outstanding <= 1

(***************************************************************************)
(* SpecB: startAssessment of the batched revision (part_000).  The whole   *)
(* gallery is analysed, in batches of BATCH_SIZE; the async function of    *)
(* each reference of a batch runs on its own and Promise.all joins them.   *)
(*   batch[j].st: idle -> fetch -> oracle -> done;  null when the fetch    *)
(*   fails.  A reference with a data: URL is not fetched.                  *)
(***************************************************************************)
\* calculateImageHash of the enrichGallery effect applied to every record.
enrichGallery(gal) ==
    [k \in 1..Len(gal) |-> [gal[k] EXCEPT !.hash = calculateImageHash(gal[k].img)]]

\* hashDist >= 0 && hashDist <= 8
IsPHashMatchB(targetHash, refHash) ==
    /\ targetHash # NoHash
    /\ refHash # NoHash
    /\ calculateHammingDistance(targetHash, refHash) >= 0
    /\ calculateHammingDistance(targetHash, refHash) <= PHashThreshold

\* The references of the batch that starts behind reference i.
BatchOf(run, i) == (i + 1)..Min(i + BATCH_SIZE, Len(run.gal))

Settled(slot) == slot.st \in {"null", "done"}

\* Mutant: the batch is joined as soon as one of its calls has returned.
BatchJoinedAny(run) == \E j \in BatchOf(run, run.i) : Settled(run.batch[j])

\* await Promise.all(batchPromises) returns.
BatchJoined(run) == \A j \in BatchOf(run, run.i) : Settled(run.batch[j])

\* setStatus({step: 'analyzing', progress: Math.floor(((i + 1) / totalRefs) * 100)})
BatchStatus(run) ==
    [step |-> "analyzing", progress |-> ((run.i + 1) * 100) \div Len(run.gal)]

\* batch.map(async (refImg) => ...) up to the first await of every function.
StartBatch(run, i) ==
    [run EXCEPT !.pc = "batch", !.i = i,
                !.batch = [j \in 1..Len(run.gal) |->
                              IF j \in BatchOf(run, i)
                              THEN [st |-> IF run.gal[j].url = "data"
                                           THEN "oracle" ELSE "fetch",
                                    result |-> <<>>]
                              ELSE run.batch[j]]]

\* Mutant: the results of a batch are pushed last reference first.
RECURSIVE PushBatchReversed(_, _, _, _)
PushBatchReversed(allResults, run, j, last) ==
    IF j > last THEN allResults
    ELSE LET rest == PushBatchReversed(allResults, run, j + 1, last)
         IN  IF run.batch[j].st = "done"
             THEN PushResult(rest, run.batch[j].result[1])
             ELSE rest

\* batchResults.forEach(r => { if (r && r.scores.total > 0) allResults.push(r) })
RECURSIVE PushBatch(_, _, _, _)
PushBatch(allResults, run, j, last) ==
    IF j > last THEN allResults
    ELSE PushBatch(IF run.batch[j].st = "done"
                   THEN PushResult(allResults, run.batch[j].result[1])
                   ELSE allResults,
                   run, j + 1, last)

\* Click on the start button, up to the first await Promise.all.
startAssessmentB(r) ==
    /\ targetImage # <<>>
    /\ status.step = "idle"
    /\ runs[r].pc = "none"
    /\ \A q \in Runs : q < r => runs[q].pc # "none"
    /\ Len(gallery) # 0
    /\ \E run \in {StartBatch([NoRun EXCEPT !.target = targetImage, !.gal = gallery,
                                            !.batch = [j \in 1..Len(gallery) |->
                                                          [st |-> "idle", result |-> <<>>]]],
                              0)} :
          /\ runs' = [runs EXCEPT ![r] = run]
          /\ status' = BatchStatus(run)
    /\ UNCHANGED <<gallery, targetImage, results, selectedResult, uploads,
                   oracle, timer, jobs, faults>>

\* The fetch of reference j returns.
refFetchedB(r, j) ==
    /\ runs[r].pc = "batch"
    /\ runs[r].batch[j].st = "fetch"
    /\ \E fetchOk \in Outcomes :
          /\ faults' = After(fetchOk)
          /\ runs' = [runs EXCEPT ![r].batch[j].st =
                         IF fetchOk THEN "oracle" ELSE "null"]
    /\ UNCHANGED <<gallery, targetImage, results, selectedResult, status,
                   uploads, oracle, timer, jobs>>

\* analyzeImageRisk for reference j returns.
oracleReturnedB(r, j) ==
    /\ runs[r].pc = "batch"
    /\ runs[r].batch[j].st = "oracle"
    /\ \E outcome \in OracleOutcomes :
          LET run == runs[r]
              result == analyzeImageRisk(run.gal[j].id,
                                         IsPHashMatchB(run.target[1].hash,
                                                       run.gal[j].hash),
                                         OracleReply(run.gal[j].id, outcome))
          IN  /\ faults' = After(outcome = "ok")
              /\ runs' = [runs EXCEPT ![r] =
                             [run EXCEPT !.batch[j] = [st |-> "done",
                                                       result |-> <<result>>]]]
    /\ UNCHANGED <<gallery, targetImage, results, selectedResult, status,
                   uploads, oracle, timer, jobs>>

\* Promise.all of the batch returns: its results are pushed, and the next
\* batch is started or the run completes.
batchJoined(r) ==
    /\ runs[r].pc = "batch"
    /\ BatchJoined(runs[r])
    /\ LET run == runs[r]
           last == Min(run.i + BATCH_SIZE, Len(run.gal))
           allResults == PushBatch(run.analysisResults, run, run.i + 1, last)
       IN  IF run.i + BATCH_SIZE < Len(run.gal)
           THEN \E next \in {StartBatch([run EXCEPT !.analysisResults = allResults],
                                        run.i + BATCH_SIZE)} :
                    /\ runs' = [runs EXCEPT ![r] = next]
                    /\ status' = BatchStatus(next)
                    /\ UNCHANGED <<results, selectedResult>>
           ELSE \E sorted \in {StableSort(allResults, "match")} :
                    /\ status' = [step |-> "complete", progress |-> 100]
                    /\ results' = sorted
                    /\ selectedResult' = IF Len(sorted) > 0 THEN <<sorted[1]>>
                                         ELSE selectedResult
                    /\ runs' = [runs EXCEPT ![r] =
                                   [run EXCEPT !.pc = "done", !.i = run.i + BATCH_SIZE,
                                               !.analysisResults = sorted]]
    /\ UNCHANGED <<gallery, targetImage, uploads, oracle, timer, jobs, faults>>

\* The gallery after enrichGallery, and the same with an uploaded image.
BatchGalleries ==
    {enrichGallery(INITIAL_GALLERY),
     enrichGallery(Append(INITIAL_GALLERY, Image(Len(INITIAL_GALLERY) + 1, "data", 0)))}

InitB ==
    /\ InitApp
    /\ runs = [r \in RunPair |-> NoRun]
    /\ gallery \in BatchGalleries
    /\ oracle \in OracleTables

NextB ==
    \/ handleTargetUploadBegin
    \/ handleTargetUploadCommit
    \/ resetTarget
    \/ \E r \in Runs : startAssessmentB(r)
    \/ \E r \in Runs : \E j \in 1..Len(runs[r].gal) : refFetchedB(r, j)
    \/ \E r \in Runs : \E j \in 1..Len(runs[r].gal) : oracleReturnedB(r, j)
    \/ \E r \in Runs : batchJoined(r)

SpecB == InitB /\ [][NextB]_vars

(***************************************************************************)
(* Properties of the batched analysis.                                     *)
(***************************************************************************)
\* The calls of the Verification Oracle a run has in flight.
CallsInFlight(run) == {j \in 1..Len(run.batch) : run.batch[j].st = "oracle"}

\* The references whose async function a run has started.
Started(run) == {j \in 1..Len(run.batch) : run.batch[j].st # "idle"}

\* No call of a batch has been started before every call of the batches
\* before it has returned.
Barrier(run) ==
    \A j \in Started(run) : \A m \in 1..Len(run.batch) :
        ((m - 1) \div BATCH_SIZE) < ((j - 1) \div BATCH_SIZE) => Settled(run.batch[m])

RECURSIVE SurfacedInOrder(_, _)
SurfacedInOrder(run, j) ==
    IF j = 0 THEN <<>>
    ELSE IF run.batch[j].st = "done" /\ run.batch[j].result[1].total > 0
         THEN Append(SurfacedInOrder(run, j - 1), run.batch[j].result[1])
         ELSE SurfacedInOrder(run, j - 1)

\* C11: the result list of a completed run is determined by the target,
\* the gallery and the answers of the oracle: it is the stable match-first
\* sort of the surfaced results taken in gallery order, whatever the order
\* in which the calls returned and however the references fell into
\* batches; two completed runs with the same answers have the same list.
C11_ResultsIndependentOfCompletion ==
    /\ \A r \in Runs :
          runs[r].pc = "done" =>
              runs[r].analysisResults =
                  StableSort(SurfacedInOrder(runs[r], Len(runs[r].gal)), "match")
    /\ \A r, q \in Runs :
          (/\ runs[r].pc = "done" /\ runs[q].pc = "done"
           /\ runs[r].gal = runs[q].gal
           /\ runs[r].batch = runs[q].batch)
              => runs[r].analysisResults = runs[q].analysisResults

\* A run over two batches has completed with results that are equal on
\* both sort keys, within its first batch and across its batches.
C11_Witness ==
    \E r \in Runs :
        /\ runs[r].pc = "done"
        /\ Len(runs[r].gal) > BATCH_SIZE
        /\ \E i, j \in 1..BATCH_SIZE, k \in (BATCH_SIZE + 1)..Len(runs[r].gal) :
              LET b == runs[r].batch
              IN  /\ i < j
                  /\ b[i].st = "done" /\ b[j].st = "done" /\ b[k].st = "done"
                  /\ b[i].result[1].total > 0 /\ b[k].result[1].total > 0
                  /\ b[i].result[1].total = b[j].result[1].total
                  /\ b[i].result[1].pHashMatch = b[j].result[1].pHashMatch
                  /\ \E m \in 1..BATCH_SIZE :
                        /\ b[m].st = "done"
                        /\ b[m].result[1].total = b[k].result[1].total
                        /\ b[m].result[1].pHashMatch = b[k].result[1].pHashMatch

(***************************************************************************)
(* Properties of the status.                                               *)
(***************************************************************************)
StepRank(step) ==
    CASE step = "idle" -> 0
      [] step = "indexing" -> 1
      [] step = "retrieving" -> 2
      [] step = "analyzing" -> 3
      [] OTHER -> 4

\* A step in which a click on the start button is handled.
RunStarted == \E r \in Runs : runs[r].pc = "none" /\ runs'[r].pc # "none"

\* C12: the status only advances along idle, indexing, retrieving,
\* analyzing, complete; it goes back only to idle, by the submission of a
\* new target, and it leaves idle only by the start of a run.
C12_StatusOnlyAdvances ==
    [][/\ StepRank(status'.step) < StepRank(status.step)
            => (status'.step = "idle" /\ uploads'.committed # uploads.committed)
       /\ (status.step = "idle" /\ status'.step # "idle") => RunStarted]_vars

\* C13: at most one run is active: no run is started while an earlier run
\* still awaits a call after which it writes the status, the progress or
\* the results.
C13_OneActiveRun ==
    Cardinality({r \in Runs : InFlight(r)}) <= 1

\* The progress a run has written last, by its position.
LastProgress(run) ==
    CASE run.pc \in {"fetchTarget", "indexTarget"} -> 10
      [] run.pc \in {"fetchRef", "oracle"} -> 50 + ((run.i * 50) \div Len(run.top))
      [] run.pc = "batch" -> BatchStatus(run).progress
      [] run.pc = "done" -> 100
      [] OTHER -> 0

\* C14: the progress a run writes never decreases, lies in 0..100, and is
\* 100 exactly when the run writes the status complete; every step of a
\* run that ends the analysis of a candidate or of a batch writes it.
C14_ProgressMonotone ==
    [][\A r \in Runs :
          (runs'[r] # runs[r] /\ status' # status)
              => /\ status'.progress \in 0..100
                 /\ status'.progress >= LastProgress(runs[r])
                 /\ status'.progress = LastProgress(runs'[r])
                 /\ (status'.progress = 100) <=> (status'.step = "complete")]_vars

(***************************************************************************)
(* SpecEmpty: the component of App.tsx constructed with an empty gallery,  *)
(* the case the guard gallery.length === 0 of startAssessment is written   *)
(* for: target and gallery uploads, background indexing and runs.          *)
(***************************************************************************)
InitEmpty ==
    /\ InitApp
    /\ runs = [r \in RunIds |-> NoRun]
    /\ gallery = <<>>
    /\ oracle \in OracleTables

NextEmpty ==
    \/ handleTargetUploadBegin
    \/ handleTargetUploadCommit
    \/ resetTarget
    \/ handleGalleryUploadBegin
    \/ \E job \in BagToSet(jobs) : handleGalleryUploadCommit(job)
    \/ processGallery
    \/ \E job \in BagToSet(jobs) : indexCompleted(job)
    \/ \E r \in Runs : startAssessment(r)
    \/ \E r \in Runs : targetFetched(r)
    \/ \E r \in Runs : targetIndexed(r)
    \/ \E r \in Runs : refFetched(r)
    \/ \E r \in Runs : oracleReturned(r)

SpecEmpty == InitEmpty /\ [][NextEmpty]_vars

C16_NewTargetResetsRun ==
    [][targetImage' # targetImage
          => /\ status' = IdleStatus
             /\ results' = <<>>
             /\ selectedResult' = <<>>]_vars

\* C17: a record whose embedding computation has failed has its isIndexing
\* flag cleared and no embedding set, and it still needs indexing: no
\* record of the gallery that is not being indexed holds an empty
\* embedding or lacks an embedding without being eligible for the next
\* pass.
C17_FailedEmbeddingRetried ==
    \A i \in 1..Len(gallery) :
        (~gallery[i].isIndexing
         /\ (~gallery[i].embedding.def \/ gallery[i].embedding.vec = <<>>))
            => (~gallery[i].embedding.def /\ NeedsIndexing(gallery[i]))

\* C18: the hash, the embedding and the description of a gallery record
\* are populated at most once: once a record holds a value in one of these
\* fields, no step changes or clears it, nor removes the record.
C18_FieldsPopulatedOnce ==
    [][\A i \in 1..Len(gallery) :
          \E j \in 1..Len(gallery') :
              /\ gallery'[j].id = gallery[i].id
              /\ gallery[i].hash # NoHash => gallery'[j].hash = gallery[i].hash
              /\ gallery[i].embedding.def
                    => gallery'[j].embedding = gallery[i].embedding
              /\ gallery[i].description # "undefined"
                    => gallery'[j].description = gallery[i].description]_vars

(***************************************************************************)
(* Properties of the Verification Oracle Adapter.                          *)
(***************************************************************************)
ResultFields ==
    {"referenceImageId", "isMatch", "semantic", "structure", "compliance",
     "total", "analysisText", "pHashMatch", "vectorSimilarity"}

\* The candidates of a run that analyzeImageRisk may have been called for.
Analysed(run) == {run.top[k] : k \in 1..Min(run.i + 1, Len(run.top))}

ShortHash(img) == SubSeq(calculateImageHash(img), 1, HashBits - 1)

HashRecord(id, p) ==
    CASE p = 1 -> Image(id, UrlOf(id), 0)
      [] p = 2 -> Indexed(Image(id, UrlOf(id), 1), TRUE)
      [] p = 3 -> [Indexed(Image(id, UrlOf(id), 0), TRUE) EXCEPT !.hash = ShortHash(0)]
      [] OTHER -> [Indexed(Image(id, UrlOf(id), 2), TRUE) EXCEPT !.hash = ShortHash(2)]

InitHash ==
    /\ results = <<>>
    /\ selectedResult = <<>>
    /\ status = IdleStatus
    /\ runs = [r \in RunIds |-> NoRun]
    /\ uploads = [pending |-> 0, committed |-> 1, gallery |-> 0]
    /\ timer = FALSE
    /\ jobs = EmptyBag
    /\ faults = MaxFaults
    /\ oracle = CHOOSE t \in OracleTables : TRUE
    /\ \E ps \in [1..Len(INITIAL_GALLERY) -> 1..4] :
          gallery = [k \in 1..Len(INITIAL_GALLERY) |-> HashRecord(k, ps[k])]
    /\ \E short \in BOOLEAN :
          targetImage = <<[Image(1, "data", 0) EXCEPT
                             !.hash = IF short THEN ShortHash(0)
                                      ELSE calculateImageHash(0)]>>

SpecHash == InitHash /\ [][NextSel]_vars

MaxHashLen == 4

BitStrings == UNION {[1..n -> {0, 1}] : n \in 0..MaxHashLen}

HashInputs == BitStrings \cup {calculateImageHash(img) : img \in Images}

InitBits ==
    /\ results = <<>>
    /\ selectedResult = <<>>
    /\ status = IdleStatus
    /\ runs = [r \in RunIds |-> NoRun]
    /\ uploads = [pending |-> 0, committed |-> 1, gallery |-> 0]
    /\ timer = FALSE
    /\ jobs = EmptyBag
    /\ faults = MaxFaults
    /\ oracle = CHOOSE t \in OracleTables : TRUE
    /\ \E refHash \in HashInputs :
          gallery = [k \in 1..Len(INITIAL_GALLERY) |->
                        IF k = 1 THEN [Image(k, UrlOf(k), 0) EXCEPT !.hash = refHash]
                        ELSE Image(k, UrlOf(k), 0)]
    /\ \E targetHash \in HashInputs :
          targetImage = <<[Image(1, "data", 0) EXCEPT !.hash = targetHash]>>

SpecBits == InitBits /\ [][NextSel]_vars

\* C21: for hashes a and b of equal length calculateHammingDistance(a, b)
\* is the number of positions at which a and b differ; so it is 0 for
\* (a, a), the same for (b, a), and lies in 0..Len(a). The flag the
\* retrieval stored for the pair is that number compared with the threshold.
C21_HammingCountsDifferences ==
    \A r \in Retrieved :
        \A i \in 1..Len(runs[r].candidates) :
            LET a == runs[r].target[1].hash
                b == runs[r].gal[runs[r].candidates[i].idx].hash
                differing == Cardinality({p \in 1..Len(a) : a[p] # b[p]})
            IN  (a # NoHash /\ Len(a) = Len(b))
                    => /\ calculateHammingDistance(a, b) = differing
                       /\ calculateHammingDistance(b, a) = differing
                       /\ calculateHammingDistance(a, a) = 0
                       /\ calculateHammingDistance(b, b) = 0
                       /\ differing \in 0..Len(a)
                       /\ runs[r].candidates[i].isPHashMatch
                              = (differing <= PHashThreshold)

\* A retrieval has compared two different hashes of equal length that
\* differ in their first bit, and one has compared two hashes further
\* apart than the threshold.
C21_Witness ==
    \E r \in Retrieved :
        \E i \in 1..Len(runs[r].candidates) :
            LET a == runs[r].target[1].hash
                b == runs[r].gal[runs[r].candidates[i].idx].hash
            IN  /\ a # NoHash /\ Len(a) = Len(b)
                /\ a[1] # b[1]
                /\ calculateHammingDistance(a, b) >= 2

(***************************************************************************)
(* SpecVec: the candidate retrieval of App.tsx applied to a target and a   *)
(* gallery record whose embeddings are absent, empty, or any vector of up  *)
(* to MaxVecLen integer components of magnitude up to MaxComponent whose   *)
(* norm is an integer (Sqrt is exact on those).                            *)
(***************************************************************************)
MaxVecLen == 2
MaxComponent == 5

IsSquare(n) == \E r \in 0..n : r * r = n

Vectors ==
    UNION {{v \in [1..n -> -MaxComponent..MaxComponent] : IsSquare(Dot(v, v, 1))} :
              n \in 0..MaxVecLen}

EmbeddingInputs == {UndefEmb} \cup {Emb(v) : v \in Vectors}

InitVec ==
    /\ results = <<>>
    /\ selectedResult = <<>>
    /\ status = IdleStatus
    /\ runs = [r \in RunIds |-> NoRun]
    /\ uploads = [pending |-> 0, committed |-> 1, gallery |-> 0]
    /\ timer = FALSE
    /\ jobs = EmptyBag
    /\ faults = MaxFaults
    /\ oracle = CHOOSE t \in OracleTables : TRUE
    /\ \E refEmbedding \in EmbeddingInputs :
          gallery = [k \in 1..Len(INITIAL_GALLERY) |->
                        IF k = 1
                        THEN [Indexed(Image(k, UrlOf(k), 0), TRUE)
                                 EXCEPT !.embedding = refEmbedding]
                        ELSE Image(k, UrlOf(k), 0)]
    /\ \E targetEmbedding \in EmbeddingInputs :
          targetImage = <<[Image(1, "data", 0) EXCEPT
                             !.hash = calculateImageHash(0),
                             !.embedding = targetEmbedding]>>

SpecVec == InitVec /\ [][NextSel]_vars

\* C22: calculateCosineSimilarity yields exactly 0 when the two vectors
\* differ in length, one is empty or one has norm zero, so a candidate gets
\* similarity 0 whenever its embedding or the embedding of the target is
\* missing, empty, of another length or of norm zero.
C22_DegenerateVectorsGiveZero ==
    \A r \in Retrieved :
        \A i \in 1..Len(runs[r].candidates) :
            LET t == runs[r].targetEmbedding
                e == runs[r].gal[runs[r].candidates[i].idx].embedding
            IN  (\/ ~t.def \/ ~e.def
                 \/ Len(t.vec) # Len(e.vec)
                 \/ Len(t.vec) = 0 \/ Len(e.vec) = 0
                 \/ Dot(t.vec, t.vec, 1) = 0 \/ Dot(e.vec, e.vec, 1) = 0)
                    => runs[r].candidates[i].similarity = 0

\* A retrieval has compared two non-empty vectors of different lengths and
\* neither of norm zero.
C22_Witness ==
    \E r \in Retrieved :
        \E i \in 1..Len(runs[r].candidates) :
            LET t == runs[r].targetEmbedding
                e == runs[r].gal[runs[r].candidates[i].idx].embedding
            IN  /\ t.def /\ e.def
                /\ Len(t.vec) > Len(e.vec) /\ Len(e.vec) > 0
                /\ Dot(t.vec, t.vec, 1) > 0 /\ Dot(e.vec, e.vec, 1) > 0
                /\ t.vec[1] * e.vec[1] > 0

\* C24: the similarity calculateCosineSimilarity yields for a candidate
\* lies between 0.0 and 1.0 (0 and 100 hundredths).
C24_SimilarityInUnitInterval ==
    \A r \in Retrieved :
        \A i \in 1..Len(runs[r].candidates) :
            runs[r].candidates[i].similarity \in 0..100

(***************************************************************************)
(* SpecPix: calculateImageHash on the pixels of the 9x8 canvas.  The       *)
(* content of an uploaded target is the pixel grid drawImage produced: a   *)
(* background colour with a window of MaxWindow consecutive pixels (in     *)
(* row-major order, so that it may span the end of a row) of any colours.  *)
(* A colour is <<R, G, B, A>>.                                             *)
(***************************************************************************)
MaxWindow == 3

CanvasWidth == 9
CanvasHeight == 8

\* Two colours of equal average but different channels, a darker and a
\* brighter one, and a transparent one.
Colours == {<<1, 1, 1, 255>>, <<3, 0, 0, 255>>, <<0, 0, 0, 255>>, <<2, 2, 2, 0>>}

Background == <<1, 1, 1, 255>>

\* grid[y][x] is the pixel of row y and column x.
PixelGrid(start, window) ==
    [y \in 0..(CanvasHeight - 1) |->
        [x \in 0..(CanvasWidth - 1) |->
            LET k == y * CanvasWidth + x
            IN  IF k >= start /\ k < start + MaxWindow
                THEN window[k - start + 1] ELSE Background]]

PixelGrids ==
    {PixelGrid(start, window) :
        start \in 0..(CanvasWidth * CanvasHeight - MaxWindow),
        window \in [1..MaxWindow -> Colours]}

\* ctx.getImageData(0, 0, 9, 8).data: the RGBA bytes in row-major order
\* (index k of the array is element k + 1 of the sequence).
getImageData(grid) ==
    [k \in 1..(CanvasWidth * CanvasHeight * 4) |->
        grid[(k - 1) \div (CanvasWidth * 4)][((k - 1) \div 4) % CanvasWidth][((k - 1) % 4) + 1]]

\* Mutant: a pixel as bright as its right neighbour yields 1 as well.
dHashNotStrict(imageData) ==
    [n \in 1..HashBits |->
        LET y == (n - 1) \div 8
            x == (n - 1) % 8
            currentIdx == (y * 9 + x) * 4
            nextIdx == (y * 9 + (x + 1)) * 4
        IN  IF imageData[currentIdx + 1] + imageData[currentIdx + 2] + imageData[currentIdx + 3]
                 >= imageData[nextIdx + 1] + imageData[nextIdx + 2] + imageData[nextIdx + 3]
            THEN 1 ELSE 0]

\* The two loops of calculateImageHash: bit n of the hash is appended in
\* iteration y = (n - 1) \div 8, x = (n - 1) % 8.  currentVal and nextVal
\* are kept in thirds (the sum of the channels), which compares as the
\* quotients by 3 do.
dHash(imageData) ==
    [n \in 1..HashBits |->
        LET y == (n - 1) \div 8
            x == (n - 1) % 8
            currentIdx == (y * 9 + x) * 4
            currentVal == imageData[currentIdx + 1] + imageData[currentIdx + 2]
                              + imageData[currentIdx + 3]
            nextIdx == (y * 9 + (x + 1)) * 4
            nextVal == imageData[nextIdx + 1] + imageData[nextIdx + 2]
                           + imageData[nextIdx + 3]
        IN  IF currentVal > nextVal THEN 1 ELSE 0]

\* handleTargetUpload after its awaits, for a file whose canvas holds the
\* grid: the hash is undefined when the image cannot be decoded.  The
\* first upload to commit is followed.
handleTargetUploadPixels ==
    /\ uploads.pending > 0
    /\ uploads.committed = 0
    /\ \E grid \in PixelGrids, hashOk \in Outcomes :
          /\ targetImage' = <<[Image(uploads.committed + 1, "data", grid) EXCEPT
                                 !.hash = IF hashOk THEN dHash(getImageData(grid))
                                          ELSE NoHash]>>
          /\ faults' = After(hashOk)
    /\ results' = <<>>
    /\ selectedResult' = <<>>
    /\ status' = IdleStatus
    /\ uploads' = [uploads EXCEPT !.pending = @ - 1, !.committed = @ + 1]
    /\ UNCHANGED <<gallery, runs, oracle, timer, jobs>>

InitPix ==
    /\ InitApp
    /\ gallery = INITIAL_GALLERY
    /\ runs = [r \in RunIds |-> NoRun]
    /\ oracle = CHOOSE t \in OracleTables : TRUE

\* The upload of one target file.
NextPix ==
    \/ handleTargetUploadBegin
    \/ handleTargetUploadPixels

SpecPix == InitPix /\ [][NextPix]_vars

\* Three times the average of the three colour channels of a pixel.
Luminance3(pixel) == pixel[1] + pixel[2] + pixel[3]

\* C23: the hash of a decodable image has 64 characters, each 0 or 1, one
\* per pair of horizontally adjacent pixels, row by row over the 8 rows of
\* 8 pairs of the 9x8 grid; a bit is 1 exactly when the left pixel's
\* average is strictly greater than the right pixel's.
C23_HashIsRowMajorDifference ==
    (targetImage # <<>> /\ targetImage[1].hash # NoHash)
        => LET hash == targetImage[1].hash
               grid == targetImage[1].img
           IN  /\ Len(hash) = 64
               /\ \A n \in 1..64 : hash[n] \in {0, 1}
               /\ \A y \in 0..7 : \A x \in 0..7 :
                      (hash[8 * y + x + 1] = 1)
                          <=> (Luminance3(grid[y][x]) > Luminance3(grid[y][x + 1]))

\* A hashed target in which two adjacent pixels of different colours have
\* the same average, a row ends brighter than the next one begins, and a
\* pixel is brighter than its right neighbour.
C23_Witness ==
    /\ targetImage # <<>> /\ targetImage[1].hash # NoHash
    /\ LET grid == targetImage[1].img
       IN  /\ \E y \in 0..7 : \E x \in 0..7 :
                  /\ grid[y][x] # grid[y][x + 1]
                  /\ Luminance3(grid[y][x]) = Luminance3(grid[y][x + 1])
           /\ \E y \in 0..6 : Luminance3(grid[y][8]) > Luminance3(grid[y + 1][0])
           /\ \E n \in 1..64 : targetImage[1].hash[n] = 1

(***************************************************************************)
(* Properties of the candidate loop of startAssessment.                    *)
(***************************************************************************)
\* The references the Verification Oracle has answered for in a run.
ReturnedIds(run) == {run.returned[j].referenceImageId : j \in 1..Len(run.returned)}

\* The references of the candidates of a run before its index i.
VisitedIds(run) == {run.gal[run.top[k].idx].id : k \in 1..Min(run.i, Len(run.top))}

\* C25: when the fetch of a candidate's image fails the candidate is
\* skipped, with no oracle call and no result for it, and the run goes on
\* with the next candidate or completes; every candidate whose image was
\* fetched has been analysed when the run is done.
C25_FailedFetchSkipsCandidate ==
    [][\A r \in Runs :
          /\ (runs[r].pc = "fetchRef" /\ runs'[r] # runs[r] /\ runs'[r].pc # "oracle")
                => /\ runs'[r].returned = runs[r].returned
                   /\ Len(runs'[r].analysisResults) = Len(runs[r].analysisResults)
                   /\ runs'[r].i = runs[r].i + 1
                   /\ IF runs'[r].i < Len(runs[r].top)
                      THEN runs'[r].pc = "fetchRef"
                      ELSE runs'[r].pc = "done" /\ status'.step = "complete"
                   /\ faults' = faults - 1
          /\ runs'[r].pc = "done"
                => /\ runs'[r].i = Len(runs'[r].top)
                   /\ ReturnedIds(runs'[r]) \subseteq VisitedIds(runs'[r])
                   /\ Cardinality(VisitedIds(runs'[r]) \ ReturnedIds(runs'[r]))
                          <= MaxFaults - faults']_vars

\* A run is done, the fetch of one of its candidates failed and a
\* candidate behind that one was analysed.
C25_Witness ==
    \E r \in Runs :
        /\ runs[r].pc = "done" /\ status.step = "complete"
        /\ \E k, j \in 1..Len(runs[r].top) :
              /\ k < j
              /\ runs[r].gal[runs[r].top[k].idx].id \notin ReturnedIds(runs[r])
              /\ runs[r].gal[runs[r].top[j].idx].id \in ReturnedIds(runs[r])

(***************************************************************************)
(* SpecLarge: the assessment of part_000 over a gallery of MaxGallery      *)
(* records, the initial images and uploaded ones.                          *)
(***************************************************************************)
LargeGallery ==
    enrichGallery([k \in 1..MaxGallery |->
                      IF k <= Len(INITIAL_GALLERY) THEN INITIAL_GALLERY[k]
                      ELSE Image(k, "data", 0)])

InitLarge ==
    /\ InitApp
    /\ runs = [r \in RunPair |-> NoRun]
    /\ gallery = LargeGallery
    /\ oracle \in OracleTables

SpecLarge == InitLarge /\ [][NextB]_vars

\* The references a run of part_000 has called the Verification Oracle for.
OracleCalls(run) == {j \in 1..Len(run.batch) : run.batch[j].st \in {"oracle", "done"}}

\* C26: a run calls the Verification Oracle for the records of the
\* truncated candidate list only, so for at most CandidateCap records,
\* however large the gallery is.
C26_AtMostFiveOracleCalls ==
    \A r \in Runs : Cardinality(OracleCalls(runs[r])) <= CandidateCap

(***************************************************************************)
(* Properties of the scores of the surfaced results.                       *)
(***************************************************************************)
\* C27: a surfaced result carries the scores the Verification Oracle
\* reported for its reference, the total unchanged even where it is not
\* the sum of the sub-scores, and the list is ranked by that total.
C27_ScoresPassedThrough ==
    /\ \A k \in 1..Len(results) :
          /\ results[k].total = oracle[results[k].referenceImageId]
          /\ <<results[k].semantic, results[k].structure, results[k].compliance>>
                 = OracleParts(results[k].referenceImageId)
    /\ \A k, l \in 1..Len(results) : k < l => results[k].total >= results[l].total

\* The surfaced list holds a result whose total is not the sum of its
\* sub-scores, ranked above a result of a greater sum.
C27_Witness ==
    /\ status.step = "complete"
    /\ \E k, l \in 1..Len(results) :
          /\ k < l
          /\ results[k].total # results[k].semantic + results[k].structure
                                    + results[k].compliance
          /\ results[k].semantic + results[k].structure + results[k].compliance
                 < results[l].semantic + results[l].structure + results[l].compliance

(***************************************************************************)
(* SpecUp: background indexing and gallery uploads from a state in which   *)
(* the initial images have been indexed and an upload is already suspended *)
(* at blobToBase64, so that the uploads of two handlers overlap.           *)
(***************************************************************************)
InitUp ==
    /\ targetImage = <<>>
    /\ results = <<>>
    /\ selectedResult = <<>>
    /\ status = IdleStatus
    /\ runs = <<>>
    /\ uploads = [pending |-> 0, committed |-> 0, gallery |-> 0]
    /\ oracle \in OracleTables
    /\ gallery = [k \in 1..Len(INITIAL_GALLERY) |-> Indexed(INITIAL_GALLERY[k], TRUE)]
    /\ timer = FALSE
    /\ jobs = SetToBag({UploadJob(Image(MaxId, "data", 0), gallery)})
    /\ faults = MaxFaults

SpecUp == InitUp /\ [][NextIdx]_vars

\* Position of the record of an id in a gallery; 0 when it holds none.
PositionOf(gal, id) ==
    IF \E j \in 1..Len(gal) : gal[j].id = id
    THEN CHOOSE j \in 1..Len(gal) : gal[j].id = id
    ELSE 0

\* C28: no step removes a record from the gallery or changes the relative
\* order of two records.
C28_NoRecordLost ==
    [][\A i \in 1..Len(gallery) :
          /\ PositionOf(gallery', gallery[i].id) # 0
          /\ \A k \in 1..(i - 1) :
                PositionOf(gallery', gallery[k].id)
                    < PositionOf(gallery', gallery[i].id)]_vars

(***************************************************************************)
(* Progress of the background indexing.                                    *)
(***************************************************************************)
\* A record marked isIndexing can still be unmarked: an invocation of
\* processGallery is outstanding for its position, or an upload is
\* suspended whose gallery holds the record unmarked.
CanBeUnmarked(i) ==
    \/ \E job \in IndexJobs : job.pendingIndex = i
    \/ \E job \in UploadJobs : i <= Len(job.gal) /\ ~job.gal[i].isIndexing

\* C29: no computation having failed, every record marked isIndexing has a
\* computation outstanding that clears the mark, so that no record stays
\* marked forever and every record is indexed in the end.
C29_MarkedRecordHasComputation ==
    faults = MaxFaults => \A i \in Flagged : CanBeUnmarked(i)

(***************************************************************************)
(* SpecRetry: one call retryWithBackoff(operation) with the default        *)
(* arguments.  runs holds the frame of the call: its position, the         *)
(* arguments retries and delay of the innermost invocation, the outcome of *)
(* every run of the operation (log), the delays slept and what the call    *)
(* has returned or thrown.  The operation settles each time it is run and  *)
(* the timeout fires.                                                      *)
(***************************************************************************)
Retries == 5
InitialDelay == 2000

\* An error the operation throws: its status and its message.
Errors ==
    [kind : {"error"}, status : {429, 500},
     message : {"undefined", "rate limit exceeded", "Rate limit exceeded"}]

\* What a run of the operation yields: a value or an error.
OperationOutcomes == {[kind |-> "value", status |-> 200, message |-> "ok"]} \cup Errors

\* error.message.includes('rate limit')
IncludesRateLimit(message) == message = "rate limit exceeded"

\* error.status === 429 || (error.message && error.message.includes('rate limit'))
IsRateLimit(error) ==
    error.status = 429
    \/ (error.message # "undefined" /\ IncludesRateLimit(error.message))

\* Mutant: the delay is passed on unchanged.
NextDelayConstant(delay) == delay

\* delay * 2
NextDelay(delay) == delay * 2

NoOutcome == [kind |-> "none", status |-> 0, message |-> "undefined"]

InitRetry ==
    /\ InitApp
    /\ gallery = INITIAL_GALLERY
    /\ oracle = CHOOSE t \in OracleTables : TRUE
    /\ runs = <<[pc |-> "operation", retries |-> Retries, delay |-> InitialDelay,
                 log |-> <<>>, slept |-> <<>>, settled |-> NoOutcome]>>

\* await operation() returns or throws.
operationSettled ==
    /\ runs[1].pc = "operation"
    /\ \E outcome \in OperationOutcomes :
          runs' = [runs EXCEPT ![1] =
                      LET call == [runs[1] EXCEPT !.log = Append(@, outcome)]
                      IN  IF outcome.kind = "value"
                          THEN [call EXCEPT !.pc = "returned", !.settled = outcome]
                          ELSE IF call.retries > 0 /\ IsRateLimit(outcome)
                          THEN [call EXCEPT !.pc = "sleeping"]
                          ELSE [call EXCEPT !.pc = "thrown", !.settled = outcome]]
    /\ UNCHANGED <<gallery, targetImage, results, selectedResult, status, uploads,
                   oracle, timer, jobs, faults>>

\* The timeout of `delay` ms fires: retryWithBackoff(operation, retries - 1,
\* delay * 2) up to its await.
timeoutFired ==
    /\ runs[1].pc = "sleeping"
    /\ runs' = [runs EXCEPT ![1] =
                   [runs[1] EXCEPT !.pc = "operation",
                                   !.slept = Append(@, runs[1].delay),
                                   !.retries = @ - 1,
                                   !.delay = NextDelay(@)]]
    /\ UNCHANGED <<gallery, targetImage, results, selectedResult, status, uploads,
                   oracle, timer, jobs, faults>>

NextRetry ==
    \/ operationSettled
    \/ timeoutFired

SpecRetry == InitRetry /\ [][NextRetry]_vars /\ WF_vars(NextRetry)

RECURSIVE Pow2(_)
Pow2(n) == IF n = 0 THEN 1 ELSE 2 * Pow2(n - 1)

\* What holds of a call of retryWithBackoff at every moment.
RetryInvariant ==
    LET call == runs[1]
        n == Len(call.log)
    IN  /\ n <= 6
        /\ \A k \in 1..(n - 1) :
              call.log[k].kind = "error"
              /\ (call.log[k].status = 429
                  \/ call.log[k].message = "rate limit exceeded")
        /\ Len(call.slept) <= 5
        /\ \A k \in 1..Len(call.slept) : call.slept[k] = 2000 * Pow2(k - 1)
        /\ call.pc = "operation" => Len(call.slept) = n
        /\ call.pc = "sleeping" => Len(call.slept) = n - 1
        /\ call.pc = "returned"
              => call.log[n].kind = "value" /\ call.settled = call.log[n]
        /\ call.pc = "thrown"
              => /\ call.log[n].kind = "error" /\ call.settled = call.log[n]
                 /\ \/ n = 6
                    \/ (call.log[n].status # 429
                        /\ call.log[n].message # "rate limit exceeded")
        /\ (n > 0 /\ call.pc \in {"operation", "sleeping"})
              => (call.log[n].kind = "error"
                  /\ (call.log[n].status = 429
                      \/ call.log[n].message = "rate limit exceeded"))

\* C30: retryWithBackoff terminates; it runs the operation at most 6
\* times, runs it again only after a rate-limit error (status 429 or a
\* message containing 'rate limit'), throws any other error at once, has
\* slept 2000, 4000, ... ms before the retries and returns the first value
\* the operation yields.
C30_RetryTerminates ==
    /\ []RetryInvariant
    /\ <>(runs[1].pc \in {"returned", "thrown"})

\* The call has returned a value after a retry for a status of 429 and a
\* retry for a rate-limit message with another status.
C30_Witness ==
    /\ runs[1].pc = "returned"
    /\ Len(runs[1].slept) >= 2
    /\ \E k \in 1..Len(runs[1].log) :
          runs[1].log[k].kind = "error" /\ runs[1].log[k].status = 500
    /\ \E k \in 1..Len(runs[1].log) :
          runs[1].log[k].kind = "error" /\ runs[1].log[k].message = "undefined"

====
